---- MODULE Spec2Model ----
(***************************************************************************)
(* Model of src/common/DOMWorld.ts: the DOMWorld execution-context slot    *)
(* (_setContext / _detach / executionContext / _document) and the WaitTask *)
(* scheduler (constructor / terminate / rerun / _cleanup).                 *)
(*                                                                         *)
(* One action is one macrotask of the JavaScript event loop: the handler   *)
(* itself plus every promise continuation (microtask) it makes runnable.   *)
(* A run of WaitTask.rerun is suspended between macrotasks at one of its   *)
(* awaits: on the context promise (line 692 inner await), on the           *)
(* evaluateHandle call (line 692 outer await), or inside the falsy check   *)
(* of line 713 (on the context promise, line 139, or on the evaluate call, *)
(* line 140).  JSHandle.dispose() marks the handle disposed when called,   *)
(* so the awaits of lines 704 and 715 are not modelled as suspensions.     *)
(* The remote realm is an external collaborator: the response of a call in *)
(* flight is a nondeterministic choice among its possible outcomes.        *)
(*                                                                         *)
(* waitForPredicatePageFunction (lines 744-818), the function a run ships  *)
(* to the realm, is modelled on its own: one invocation, the page's timer, *)
(* animation-frame and MutationObserver callbacks, and the page state the  *)
(* predicate reads.  The predicate is a synchronous function: its await    *)
(* completes within the macrotask that called it.                          *)
(***************************************************************************)
EXTENDS Integers, Sequences, FiniteSets, TLC

\* ------------------------------------------------------------------ bounds
\* The wait scheduler (Spec): WaitTask constructions, _setContext(context)
\* calls and _setContext(null) calls.
MaxTasks == 2
MaxBinds == 2
MaxUnbinds == 1
\* The context tracker (SpecCtx): _setContext(context) calls,
\* _setContext(null) calls and callers of executionContext().
MaxCtxBinds == 2
MaxCtxUnbinds == 2
MaxAcquires == 2
\* The wait scheduler with fair timers (SpecTimers): _setContext(context)
\* calls.
MaxTimersBinds == 1
\* The rebinding World (SpecRebind): WaitTask constructions.
MaxRebindTasks == 1
\* The remote poll loop (SpecPoll): evaluations of the predicate by one
\* invocation.
MaxPredCalls == 3

Tasks == 1..MaxTasks
Promises == 1..(MaxUnbinds + MaxCtxUnbinds + 1)
Acquirers == 1..MaxAcquires

\* ------------------------------------------------------------------ state
VARIABLES
  detached,                \* DOMWorld._detached
  documentPromise,         \* DOMWorld._documentPromise: 0 = null, else the context promise it is chained on
  contextPromise,          \* DOMWorld._contextPromise: id of the current promise object
  contextResolveCallback,  \* DOMWorld._contextResolveCallback # null
  promiseVal,              \* context promise id -> realm it was fulfilled with, 0 = pending
  waitTasks,               \* DOMWorld._waitTasks
  nTasks,                  \* number of new WaitTask(...) calls so far; the t-th call makes task t
  nBinds,                  \* number of _setContext(context) calls so far; the c-th call passes realm c
  task,                    \* WaitTask fields, per task id
  runs,                    \* the invocations of rerun() that have not returned yet
  acq,                     \* callers of executionContext() awaiting the returned promise
  pagePolling,             \* waitForPredicatePageFunction: its polling argument, "none" before the call
  pageTimeout,             \* its timeout argument
  timedOut,                \* its local timedOut
  pageTimer,               \* the timer of line 752: "none", "armed", "fired"
  result,                  \* the promise the call returns: "none" (pending), "truthy", "sentinel", "rejected"
  scheduled,               \* a requestAnimationFrame / setTimeout callback of the loop is pending
  observing,               \* the MutationObserver of pollMutation is connected
  predicateValue,          \* what predicate(...args) does on the page as it is now
  predCalls                \* calls of predicate(...args) made by the invocation, counted up to MaxPredCalls

worldVars == <<detached, documentPromise, contextPromise,
               contextResolveCallback, promiseVal, waitTasks, nTasks, nBinds,
               task, runs, acq>>

pageVars == <<pagePolling, pageTimeout, timedOut, pageTimer, result,
              scheduled, observing, predicateValue, predCalls>>

vars == <<detached, documentPromise, contextPromise, contextResolveCallback,
          promiseVal, waitTasks, nTasks, nBinds, task, runs, acq,
          pagePolling, pageTimeout, timedOut, pageTimer, result,
          scheduled, observing, predicateValue, predCalls>>

\* The whole state as one value, so that the sequential code of a handler
\* is a composition of functions on it.
World ==
  [detached |-> detached, documentPromise |-> documentPromise,
   contextPromise |-> contextPromise,
   contextResolveCallback |-> contextResolveCallback,
   promiseVal |-> promiseVal, waitTasks |-> waitTasks, nTasks |-> nTasks,
   nBinds |-> nBinds, task |-> task, runs |-> runs, acq |-> acq]

Becomes(s) ==
  /\ detached' = s.detached
  /\ documentPromise' = s.documentPromise
  /\ contextPromise' = s.contextPromise
  /\ contextResolveCallback' = s.contextResolveCallback
  /\ promiseVal' = s.promiseVal
  /\ waitTasks' = s.waitTasks
  /\ nTasks' = s.nTasks
  /\ nBinds' = s.nBinds
  /\ task' = s.task
  /\ runs' = s.runs
  /\ acq' = s.acq
  /\ UNCHANGED pageVars

\* ------------------------------------------------------------- WaitTask
\* Fields of a WaitTask (lines 621-631) and the history the claims need.
\*   threw        the constructor threw (no object exists)
\*   outcome      state of this.promise: "none" (not created), "pending",
\*                "resolved", or the error it was rejected with
\*   timer        _timeoutTimer: "none" (timeout = 0), "armed", "fired",
\*                "cleared"
\*   rejectCalls  calls of this._reject
\*   evalCalls    evaluateHandle calls issued by the runs of the task
\*   born         -1 if the World had a realm (or was detached) at
\*                construction, else the number of binds before it
\*   staleSettle  a run reached lines 732-735 while the task was terminated
\*                or a newer run had started
\*   leaked       a handle returned to a run was neither disposed nor
\*                delivered through this.promise
\*   swallowed    a realm-death error of the current run was dropped at
\*                lines 721-730
NoTask ==
  [threw |-> FALSE, runCount |-> 0, terminated |-> FALSE, outcome |-> "none",
   timer |-> "none", rejectCalls |-> 0, evalCalls |-> 0, born |-> -1,
   staleSettle |-> FALSE, leaked |-> FALSE, swallowed |-> FALSE]

\* One invocation of rerun() of task t, the n-th.
\*   pc   "ctx" | "eval" | "falsyCtx" | "falsyEval"
\*   p    context promise awaited (pc = ctx, falsyCtx), else 0
\*   r    realm of the call in flight (pc = eval, falsyEval), else 0
\*   v    value behind the handle held in success: "none" | "truthy" | "falsy"
NewRun(t, n) == [t |-> t, n |-> n, pc |-> "ctx", p |-> 0, r |-> 0, v |-> "none"]

\* Errors, by what the code can tell of them (their message).
ErrDestroyed == "Execution context was destroyed"
ErrNotFound == "Cannot find context with specified id"
ErrDetachedCtx == "Execution Context is not available in detached frame"
ErrOther == "evaluation failed"
ErrTimeout == "TimeoutError"
ErrDetach == "waitForFunction failed: frame got detached."

\* Outcomes of an evaluateHandle call: a handle on a truthy value, a handle
\* on the empty sentinel, or a failure.
EvalOutcomes == {"truthy", "falsy", ErrDestroyed, ErrNotFound, ErrOther}
IsError(res) == res \notin {"truthy", "falsy"}

\* mutant: the check of lines 726-729 is missing
IsRealmDeathDestroyedOnly(e) == e = ErrDestroyed

\* lines 721 and 726-729: the errors rerun() swallows
IsRealmDeath(e) == e \in {ErrDestroyed, ErrNotFound}

\* mutant: executionContext() does not look at _detached
ExecutionContextNeverThrows(s) == FALSE

\* lines 119-123: executionContext() throws when detached
ExecutionContextThrows(s) == s.detached

\* mutant: _cleanup() only clears the timer
CleanupKeepsMember(s, t) ==
  [s EXCEPT !.task[t].timer = IF @ = "armed" THEN "cleared" ELSE @]

\* lines 738-741
Cleanup(s, t) ==
  [s EXCEPT !.task[t].timer = IF @ = "armed" THEN "cleared" ELSE @,
            !.waitTasks = @ \ {t}]

\* this._reject of lines 662-665: a promise settles once
Reject(s, t, e) ==
  [s EXCEPT !.task[t].outcome = IF @ = "pending" THEN e ELSE @,
            !.task[t].rejectCalls = @ + 1]

\* this._resolve of lines 662-665, called with the handle of a run: the
\* handle reaches the caller only if the promise was still pending
Resolve(s, t) ==
  [s EXCEPT !.task[t].outcome = IF @ = "pending" THEN "resolved" ELSE @,
            !.task[t].leaked = @ \/ s.task[t].outcome # "pending"]

\* mutant: terminate() does not set _terminated
TerminateNoFlag(s, t, e) == Cleanup(Reject(s, t, e), t)

\* lines 680-684
Terminate(s, t, e) ==
  Cleanup(Reject([s EXCEPT !.task[t].terminated = TRUE], t, e), t)

\* rerun() returns
EndRun(s, run) == [s EXCEPT !.runs = @ \ {run}]

\* a suspended run moves on to its next suspension
Move(s, run, to) == [s EXCEPT !.runs = (@ \ {run}) \cup {to}]

\* line 703: the response is stale
IsStale(s, run) ==
  s.task[run.t].terminated \/ run.n # s.task[run.t].runCount

\* lines 719-735, reached with error set ("" is null) or with a truthy success
Settle(s, run, error) ==
  IF error # "" /\ IsRealmDeath(error)
  THEN EndRun([s EXCEPT !.task[run.t].swallowed = TRUE], run)
  ELSE LET t == run.t
           s1 == [s EXCEPT !.task[t].staleSettle =
                             @ \/ s.task[t].terminated \/ run.n # s.task[t].runCount]
           s2 == IF error # "" THEN Reject(s1, t, error) ELSE Resolve(s1, t)
       IN EndRun(Cleanup(s2, t), run)

\* line 713 up to its first suspension: this._domWorld.evaluate(...) calls
\* executionContext() (line 139); a throw there is caught by .catch(() => true)
\* and the handle is disposed (line 715)
StartFalsyCheck(s, run, res) ==
  IF ExecutionContextThrows(s)
  THEN EndRun(s, run)
  ELSE IF s.promiseVal[s.contextPromise] # 0
  THEN Move(s, run, [run EXCEPT !.pc = "falsyEval", !.p = 0, !.v = res,
                                !.r = s.promiseVal[s.contextPromise]])
  ELSE Move(s, run, [run EXCEPT !.pc = "falsyCtx", !.r = 0, !.v = res,
                                !.p = s.contextPromise])

\* lines 699-735 from the moment the evaluateHandle call of the run has
\* returned res (or executionContext() has thrown res); on the stale path a
\* returned handle is disposed (line 704)
AfterEval(s, run, res) ==
  IF IsStale(s, run)
  THEN EndRun(s, run)
  ELSE IF ~IsError(res)
  THEN StartFalsyCheck(s, run, res)
  ELSE Settle(s, run, res)

\* mutant: the result of the falsy check is ignored
AfterFalsyIgnored(s, run, isFalsy) == Settle(s, run, "")

\* lines 711-735 from the moment the falsy check has produced isFalsy; a
\* falsy handle is disposed (line 715)
AfterFalsy(s, run, isFalsy) ==
  IF isFalsy THEN EndRun(s, run) ELSE Settle(s, run, "")

\* the evaluateHandle call of line 692 is issued to realm c
IssueEval(s, run, c) ==
  [Move(s, run, [run EXCEPT !.pc = "eval", !.p = 0, !.r = c])
     EXCEPT !.task[run.t].evalCalls = @ + 1]

\* lines 686-698: rerun() up to its first suspension
Rerun(s, t) ==
  LET n == s.task[t].runCount + 1
      run == NewRun(t, n)
      s1 == [s EXCEPT !.task[t].runCount = n, !.runs = @ \cup {run}]
  IN IF ExecutionContextThrows(s1)
     THEN AfterEval(s1, run, ErrDetachedCtx)
     ELSE IF s1.promiseVal[s1.contextPromise] # 0
     THEN IssueEval(s1, run, s1.promiseVal[s1.contextPromise])
     ELSE Move(s1, run, [run EXCEPT !.p = s1.contextPromise])

\* Oldest member first: a Set iterates in insertion order, tasks are
\* numbered in the order they are constructed.
First(ts) == CHOOSE t \in ts : \A u \in ts : t <= u

\* line 98: the loop visits the members still in the Set
RECURSIVE RerunAll(_, _)
RerunAll(s, ts) ==
  IF ts = {} THEN s
  ELSE LET s1 == Rerun(s, First(ts))
       IN RerunAll(s1, (ts \ {First(ts)}) \cap s1.waitTasks)

\* mutant: the loop of _detach() stops after the first member
TerminateAllFirstOnly(s, ts, e) ==
  IF ts = {} THEN s ELSE Terminate(s, First(ts), e)

\* lines 113-116: the loop visits the members still in the Set
RECURSIVE TerminateAll(_, _, _)
TerminateAll(s, ts, e) ==
  IF ts = {} THEN s
  ELSE LET s1 == Terminate(s, First(ts), e)
       IN TerminateAll(s1, (ts \ {First(ts)}) \cap s1.waitTasks, e)

\* The continuations the fulfilment of context promise p with realm c makes
\* runnable: a run awaiting it at line 692 issues its evaluateHandle call, a
\* falsy check awaiting it at line 139 issues its evaluate call
RECURSIVE ResumeRuns(_, _, _)
ResumeRuns(s, waiting, c) ==
  IF waiting = {} THEN s
  ELSE LET run == CHOOSE x \in waiting : TRUE
           s1 == IF run.pc = "ctx" THEN IssueEval(s, run, c)
                 ELSE Move(s, run, [run EXCEPT !.pc = "falsyEval", !.p = 0, !.r = c])
       IN ResumeRuns(s1, waiting \ {run}, c)

\* line 96: the resolve callback fulfils the context promise; the callers of
\* executionContext() awaiting it receive c
Fulfill(s, p, c) ==
  LET s1 == [s EXCEPT
               !.promiseVal[p] = c,
               !.acq = [a \in Acquirers |->
                          IF s.acq[a].st = "suspended" /\ s.acq[a].p = p
                          THEN [s.acq[a] EXCEPT !.st = "resolved", !.p = 0, !.r = c]
                          ELSE s.acq[a]]]
  IN ResumeRuns(s1, {run \in s.runs : run.p = p}, c)

\* mutant: the context promise is fulfilled with the realm bound before
SetContextBindOldRealm(s, c) ==
  LET s1 == Fulfill(s, s.contextPromise, IF c > 1 THEN c - 1 ELSE c)
      s2 == [s1 EXCEPT !.contextResolveCallback = FALSE, !.nBinds = c]
  IN RerunAll(s2, s2.waitTasks)

\* lines 95-98: _setContext(context), context not null
SetContextBind(s, c) ==
  LET s1 == Fulfill(s, s.contextPromise, c)
      s2 == [s1 EXCEPT !.contextResolveCallback = FALSE, !.nBinds = c]
  IN RerunAll(s2, s2.waitTasks)

\* mutant: _setContext(null) keeps the cached document promise
SetContextNullKeepsDocument(s) ==
  [s EXCEPT !.contextPromise = @ + 1,
            !.contextResolveCallback = TRUE,
            !.acq = [a \in Acquirers |->
                       IF s.acq[a].st = "suspended"
                       THEN [s.acq[a] EXCEPT !.sawUnbind = TRUE]
                       ELSE s.acq[a]]]

\* lines 100-103: _setContext(null)
SetContextNull(s) ==
  [s EXCEPT !.documentPromise = 0,
            !.contextPromise = @ + 1,
            !.contextResolveCallback = TRUE,
            !.acq = [a \in Acquirers |->
                       IF s.acq[a].st = "suspended"
                       THEN [s.acq[a] EXCEPT !.sawUnbind = TRUE]
                       ELSE s.acq[a]]]

\* lines 111-117
DetachWorld(s) ==
  LET s1 == [s EXCEPT !.detached = TRUE]
  IN TerminateAll(s1, s1.waitTasks, ErrDetach)

\* ------------------------------------------------------------------ inputs
\* polling arguments of waitForFunction: strings, numbers and other values
PollingInputs ==
  { [kind |-> "string", str |-> "raf", num |-> 0],
    [kind |-> "string", str |-> "mutation", num |-> 0],
    [kind |-> "string", str |-> "often", num |-> 0],
    [kind |-> "number", str |-> "", num |-> 100],
    [kind |-> "number", str |-> "", num |-> 0],
    [kind |-> "number", str |-> "", num |-> -1],
    [kind |-> "object", str |-> "", num |-> 0] }

\* mutant: every number is taken as a polling interval
PollingValidAnyNumber(polling) ==
  IF polling.kind = "string" THEN polling.str \in {"raf", "mutation"}
  ELSE polling.kind = "number"

\* lines 641-648
PollingValid(polling) ==
  IF polling.kind = "string" THEN polling.str \in {"raf", "mutation"}
  ELSE IF polling.kind = "number" THEN polling.num > 0
  ELSE FALSE

\* timeout arguments: 0 is "no timeout"
TimeoutInputs == {0, 30}

\* lines 655-677: the constructor after validation
Construct(s, t, timeout) ==
  LET s1 == [s EXCEPT
               !.nTasks = t,
               !.waitTasks = @ \cup {t},
               !.task[t] = [NoTask EXCEPT
                              !.outcome = "pending",
                              !.timer = IF timeout # 0 THEN "armed" ELSE "none",
                              !.born = IF s.contextResolveCallback /\ ~s.detached
                                       THEN s.nBinds ELSE -1]]
  IN Rerun(s1, t)

\* ------------------------------------------------------------------ actions

Init ==
  /\ detached = FALSE
  /\ documentPromise = 0
  /\ contextPromise = 1
  /\ contextResolveCallback = TRUE
  /\ promiseVal = [p \in Promises |-> 0]
  /\ waitTasks = {}
  /\ nTasks = 0
  /\ nBinds = 0
  /\ task = [t \in Tasks |-> NoTask]
  /\ runs = {}
  /\ acq = [a \in Acquirers |-> [st |-> "idle", p |-> 0, r |-> 0, sawUnbind |-> FALSE]]
  /\ pagePolling = "none"
  /\ pageTimeout = 0
  /\ timedOut = FALSE
  /\ pageTimer = "none"
  /\ result = "none"
  /\ scheduled = FALSE
  /\ observing = FALSE
  /\ predicateValue = "falsy"
  /\ predCalls = 0

\* new WaitTask(...) with a valid polling argument (lines 605-612, 633-678)
Create ==
  /\ nTasks < MaxTasks
  /\ \E polling \in PollingInputs, timeout \in TimeoutInputs :
       /\ PollingValid(polling)
       /\ Becomes(Construct(World, nTasks + 1, timeout))

\* new WaitTask(...) with an invalid polling argument: the constructor throws
\* at lines 642-648
CreateInvalid ==
  /\ nTasks < MaxTasks
  /\ \E polling \in PollingInputs :
       /\ ~PollingValid(polling)
       /\ Becomes([World EXCEPT !.nTasks = @ + 1,
                                !.task[nTasks + 1].threw = TRUE])

\* _setContext(context) on a World whose resolve callback is set
DoBind ==
  /\ contextResolveCallback
  /\ Becomes(SetContextBind(World, nBinds + 1))

\* _setContext(context) while _contextResolveCallback is null: line 96
\* calls a method of null and throws
DoBindBound ==
  /\ ~contextResolveCallback
  /\ Becomes([World EXCEPT !.nBinds = @ + 1])

\* _setContext(null)
DoUnbind == Becomes(SetContextNull(World))

Bind == nBinds < MaxBinds /\ DoBind
BindBound == nBinds < MaxBinds /\ DoBindBound
Unbind == contextPromise <= MaxUnbinds /\ DoUnbind

CtxBind == nBinds < MaxCtxBinds /\ DoBind
CtxBindBound == nBinds < MaxCtxBinds /\ DoBindBound
CtxUnbind == contextPromise <= MaxCtxUnbinds /\ DoUnbind

\* _detach()
Detach ==
  /\ ~detached
  /\ Becomes(DetachWorld(World))

\* mutant: the timer callback does not terminate the task
TimerFireFlagOnly ==
  \E t \in Tasks :
    /\ task[t].timer = "armed"
    /\ Becomes([World EXCEPT !.task[t].timer = "fired"])

\* the timer armed at lines 672-675 fires
TimerFire ==
  \E t \in Tasks :
    /\ task[t].timer = "armed"
    /\ Becomes(Terminate([World EXCEPT !.task[t].timer = "fired"], t, ErrTimeout))

\* the evaluateHandle call of a run returns or fails
EvalResponse ==
  \E run \in runs : \E res \in EvalOutcomes :
    /\ run.pc = "eval"
    /\ Becomes(AfterEval(World, run, res))

\* the evaluate call of the falsy check of line 713 returns !s, or fails
\* and .catch(() => true) turns the failure into true
FalsyResponse ==
  \E run \in runs : \E ok \in BOOLEAN :
    /\ run.pc = "falsyEval"
    /\ Becomes(AfterFalsy(World, run, IF ok THEN run.v = "falsy" ELSE TRUE))

\* a caller does: await world.executionContext()
Acquire ==
  \E a \in Acquirers :
    /\ acq[a].st = "idle"
    /\ IF ExecutionContextThrows(World)
       THEN Becomes([World EXCEPT !.acq[a].st = "failed"])
       ELSE IF promiseVal[contextPromise] # 0
       THEN Becomes([World EXCEPT !.acq[a].st = "resolved",
                                  !.acq[a].r = promiseVal[contextPromise]])
       ELSE Becomes([World EXCEPT !.acq[a].st = "suspended",
                                  !.acq[a].p = contextPromise])

\* _document() (lines 152-159): a call that finds a cached promise returns it;
\* a call on a detached World throws at line 154 before the assignment
Document ==
  /\ documentPromise = 0
  /\ ~ExecutionContextThrows(World)
  /\ Becomes([World EXCEPT !.documentPromise = contextPromise])

\* ---------------------------------------------------- remote poll loop
\* polling arguments that pass the validation of the WaitTask constructor;
\* "interval" stands for a positive number
PollStrategies == {"raf", "mutation", "interval"}

\* what a call of predicate(...args) can do: return a truthy value, return
\* a falsy value, throw
PredicateOutcomes == {"truthy", "falsy", "throws"}

\* fulfill(v) on the promise of lines 765, 787, 804: the first call settles
\* it, later calls are ignored
PageFulfill(cur, v) == IF cur = "none" THEN v ELSE cur

\* one more call of predicate(...args): the count stops at MaxPredCalls,
\* the loop does not
CountCall(n) == IF n < MaxPredCalls THEN n + 1 ELSE n

\* lines 750-755 and the first pass of the chosen strategy: the initial
\* check of pollMutation (761-762, observer installed at 777-781), the first
\* onRaf() (788), the first onTimeout() (805). A throw of the predicate in
\* this pass rejects the returned promise.
PollStart ==
  /\ pagePolling = "none"
  /\ \E strategy \in PollStrategies, ms \in TimeoutInputs :
       /\ pagePolling' = strategy
       /\ pageTimeout' = ms
       /\ pageTimer' = IF ms # 0 THEN "armed" ELSE "none"
       /\ scheduled' = (predicateValue = "falsy" /\ strategy \in {"raf", "interval"})
       /\ observing' = (predicateValue = "falsy" /\ strategy = "mutation")
  /\ timedOut' = FALSE
  /\ predCalls' = CountCall(predCalls)
  /\ result' = IF predicateValue = "truthy" THEN PageFulfill(result, "truthy")
                ELSE IF predicateValue = "throws" THEN "rejected"
                ELSE result
  /\ UNCHANGED predicateValue
  /\ UNCHANGED worldVars

\* mutant: the timer of the page rejects the returned promise
PollTimerFireRejects ==
  /\ pageTimer = "armed"
  /\ pageTimer' = "fired"
  /\ timedOut' = TRUE
  /\ result' = PageFulfill(result, "rejected")
  /\ UNCHANGED <<pagePolling, pageTimeout, scheduled, observing,
                 predicateValue, predCalls>>
  /\ UNCHANGED worldVars

\* the callback of line 752
PollTimerFire ==
  /\ pageTimer = "armed"
  /\ pageTimer' = "fired"
  /\ timedOut' = TRUE
  /\ UNCHANGED <<pagePolling, pageTimeout, result, scheduled, observing,
                 predicateValue, predCalls>>
  /\ UNCHANGED worldVars

\* onRaf (lines 790-798) and onTimeout (lines 807-815) called back by the
\* page: a throw of the predicate here rejects only the promise of the
\* callback, which nobody holds
PollIteration ==
  /\ scheduled
  /\ IF timedOut
     THEN /\ result' = PageFulfill(result, "sentinel")
          /\ scheduled' = FALSE
          /\ UNCHANGED predCalls
     ELSE /\ predCalls' = CountCall(predCalls)
          /\ result' = IF predicateValue = "truthy"
                        THEN PageFulfill(result, "truthy") ELSE result
          /\ scheduled' = (predicateValue = "falsy")
  /\ UNCHANGED <<pagePolling, pageTimeout, timedOut, pageTimer, observing,
                 predicateValue>>
  /\ UNCHANGED worldVars

\* the animation frame requested at line 797
OnRaf == pagePolling = "raf" /\ PollIteration

\* the timer set at line 814
OnTimeout == pagePolling = "interval" /\ PollIteration

\* The page changes, and predicate(...args) does v from now on. A connected
\* observer is called back with the batch (lines 766-776): on timedOut it
\* disconnects and fulfils with undefined, and goes on to call the
\* predicate all the same.
Mutation ==
  \E v \in PredicateOutcomes :
    /\ predicateValue' = v
    /\ IF observing
       THEN /\ predCalls' = CountCall(predCalls)
            /\ LET r1 == IF timedOut THEN PageFulfill(result, "sentinel") ELSE result
               IN result' = IF v = "truthy" THEN PageFulfill(r1, "truthy") ELSE r1
            /\ observing' = (~timedOut /\ v # "truthy")
       ELSE UNCHANGED <<result, observing, predCalls>>
    /\ UNCHANGED <<pagePolling, pageTimeout, timedOut, pageTimer, scheduled>>
    /\ UNCHANGED worldVars

\* The wait scheduler: the World's context slot and its WaitTasks.
Next ==
  \/ Create
  \/ CreateInvalid
  \/ Bind
  \/ BindBound
  \/ Unbind
  \/ Detach
  \/ TimerFire
  \/ EvalResponse
  \/ FalsyResponse

Spec == Init /\ [][Next]_vars

\* The context tracker: the World's context slot, the callers of
\* executionContext() and the document cache.
NextCtx ==
  \/ CtxBind
  \/ CtxBindBound
  \/ CtxUnbind
  \/ Detach
  \/ Acquire
  \/ Document

SpecCtx == Init /\ [][NextCtx]_vars

TimersBind == nBinds < MaxTimersBinds /\ DoBind

\* The wait scheduler with the host's timers taken to fire: a timer armed at
\* lines 672-675 that is never cleared goes off. Nothing is assumed of the
\* realm: no bind, no response to any call.
NextTimers ==
  \/ Create
  \/ TimersBind
  \/ Unbind
  \/ Detach
  \/ TimerFire
  \/ EvalResponse
  \/ FalsyResponse

SpecTimers == Init /\ [][NextTimers]_vars /\ WF_vars(TimerFire)

\* The rebinding World: WaitTasks and callers of executionContext() on one
\* World whose realm comes and goes.
RebindCreate ==
  /\ nTasks < MaxRebindTasks
  /\ \E polling \in PollingInputs, timeout \in TimeoutInputs :
       /\ PollingValid(polling)
       /\ Becomes(Construct(World, nTasks + 1, timeout))

NextRebind ==
  \/ RebindCreate
  \/ CtxBind
  \/ CtxBindBound
  \/ CtxUnbind
  \/ Detach
  \/ TimerFire
  \/ EvalResponse
  \/ FalsyResponse
  \/ Acquire

SpecRebind == Init /\ [][NextRebind]_vars

\* The remote poll loop: one invocation of waitForPredicatePageFunction in
\* a page.
NextPoll ==
  \/ PollStart
  \/ PollTimerFire
  \/ OnRaf
  \/ OnTimeout
  \/ Mutation

SpecPoll == Init /\ [][NextPoll]_vars

\* The remote poll loop in a page whose timers and animation frames fire.
\* Nothing makes the page change.
SpecPollFair ==
  /\ Init /\ [][NextPoll]_vars
  /\ WF_vars(PollTimerFire)
  /\ WF_vars(OnRaf)
  /\ WF_vars(OnTimeout)

\* ------------------------------------------------------------------ claims
\* the step is a _setContext(context) call that did not throw
BindAccepted == contextResolveCallback /\ ~contextResolveCallback'

\* the runs of task t that are suspended
RunsOf(t) == {run \in runs : run.t = t}

\* C1: a task constructed while the World has no realm has issued no
\* evaluateHandle call before the next _setContext(context) call, and exactly
\* one once that call has been made (until a further one).
C1_ExactlyOneEvaluate ==
  \A t \in Tasks :
    task[t].born >= 0 =>
      /\ nBinds = task[t].born => task[t].evalCalls = 0
      /\ nBinds = task[t].born + 1 => task[t].evalCalls = 1

\* C2: whenever a run reaches the settlement of lines 732-735, its number is
\* the task's run counter and the task is not terminated.
C2_OnlyLatestRunSettles == \A t \in Tasks : ~task[t].staleSettle

\* C3: a task whose timer has fired is rejected with the timeout error, by
\* the only _reject call it ever gets, and is not in the collection; this
\* stays so whatever response arrives later.
C3_TimeoutSettlesOnce ==
  \A t \in Tasks :
    task[t].timer = "fired" =>
      /\ task[t].outcome = ErrTimeout
      /\ task[t].rejectCalls = 1
      /\ t \notin waitTasks

\* C3 witness: the timer of a task fired, and a run that came back with a
\* truthy handle afterwards called _resolve without effect.
C3_Witness ==
  \E t \in Tasks :
    /\ task[t].timer = "fired"
    /\ task[t].leaked
    /\ RunsOf(t) = {}
    /\ task[t].outcome = ErrTimeout

\* C4: _detach() rejects every task of the collection with the detachment
\* error and leaves the collection empty.
C4_DetachRejectsAll ==
  [][(~detached /\ detached') =>
       /\ \A t \in waitTasks :
            /\ task'[t].outcome = ErrDetach
            /\ task'[t].terminated
            /\ task'[t].rejectCalls = 1
       /\ waitTasks' = {}]_vars

\* C4 witness: two tasks were outstanding when the World was detached.
C4_Witness ==
  /\ detached
  /\ Cardinality({t \in Tasks : task[t].outcome = ErrDetach}) >= 2

\* C5: a WaitTask constructed on a detached World is rejected by the time the
\* constructor returns, is not in the collection, has no timer armed, has
\* issued no evaluateHandle call and has no run suspended.
C5_WaitAfterDetachFails ==
  [][(detached /\ nTasks' = nTasks + 1 /\ ~task'[nTasks'].threw) =>
       /\ task'[nTasks'].outcome = ErrDetachedCtx
       /\ nTasks' \notin waitTasks'
       /\ task'[nTasks'].timer # "armed"
       /\ task'[nTasks'].evalCalls = 0
       /\ \A run \in runs' : run.t # nTasks']_vars

\* C5 witness: a task with a timeout was constructed on a detached World.
C5_Witness ==
  \E t \in Tasks :
    /\ task[t].outcome = ErrDetachedCtx
    /\ task[t].timer = "cleared"
    /\ detached

\* C6: once the World is detached no caller of executionContext() is
\* suspended: those that were have failed with the detachment error.
C6_AcquireFailsOnDetach ==
  detached => \A a \in Acquirers : acq[a].st # "suspended"

\* C7: a caller of executionContext() that was suspended when
\* _setContext(null) was called receives the realm of the next
\* _setContext(context) call.
C7_NoAcquireLost ==
  [][BindAccepted =>
       \A a \in Acquirers :
         (acq[a].st = "suspended" /\ acq[a].sawUnbind) =>
           /\ acq'[a].st = "resolved"
           /\ acq'[a].r = nBinds']_vars

C9_DocumentCacheCurrent ==
  documentPromise # 0 => documentPromise = contextPromise

\* C9 witness: after a rebind, _document() cached a promise derived from the
\* second realm.
C9_Witness ==
  /\ documentPromise # 0
  /\ promiseVal[documentPromise] # 0
  /\ \E p \in Promises : p # documentPromise /\ promiseVal[p] # 0

\* C10: a task is in the collection exactly if its promise is pending and it
\* is not terminated.
C10_MemberIffPending ==
  \A t \in Tasks :
    t \in waitTasks <=> (task[t].outcome = "pending" /\ ~task[t].terminated)

\* C10 witness: one task is registered and pending while another has been
\* resolved and removed.
C10_Witness ==
  \E t, u \in Tasks :
    /\ t \in waitTasks
    /\ task[t].outcome = "pending"
    /\ task[u].outcome = "resolved"
    /\ u \notin waitTasks


\* C11: a task whose timer is armed is eventually settled and out of the
\* collection, given only that timers fire; and in a behaviour in which the
\* World is detached every pending task is eventually settled. Neither part
\* asks anything of the realm.
C11_NoTaskLeaks ==
  /\ \A t \in Tasks :
       (task[t].timer = "armed") ~>
         (task[t].outcome # "pending" /\ t \notin waitTasks /\ task[t].timer # "armed")
  /\ (<>detached) =>
       \A t \in Tasks :
         (task[t].outcome = "pending") ~> (task[t].outcome # "pending")

\* C11 witness: the timer of a task went off while its only run was still
\* waiting for a realm that was never bound.
C11_Witness ==
  \E t \in Tasks :
    /\ nBinds = 0
    /\ task[t].timer = "fired"
    /\ task[t].outcome = ErrTimeout
    /\ t \notin waitTasks
    /\ \E run \in RunsOf(t) : run.pc = "ctx"

\* C12: every _setContext(context) call starts one run for each task of the
\* collection and none for any other task: the run counter of a registered
\* task goes up by exactly one, that of every other task stays.
C12_BindStartsOneRunEach ==
  [][(nBinds' = nBinds + 1) =>
       \A t \in Tasks :
         task'[t].runCount =
           task[t].runCount + (IF t \in waitTasks THEN 1 ELSE 0)]_vars

\* C13: a polling argument that is a string other than raf and mutation, a
\* number that is not positive, or neither a string nor a number, fails the
\* validation of the constructor; and a constructor call that throws there
\* leaves the World as it was: the collection, the suspended runs, every
\* other task and the context slot are unchanged, and the task that was
\* being constructed has no timer, run counter 0 and no evaluateHandle call.
C13_InvalidPollingRejected ==
  [][/\ \A polling \in PollingInputs :
          (\/ polling.kind = "string" /\ polling.str \notin {"raf", "mutation"}
           \/ polling.kind = "number" /\ polling.num <= 0
           \/ polling.kind \notin {"string", "number"})
            => ~PollingValid(polling)
     /\ (nTasks' = nTasks + 1 /\ task'[nTasks'].threw) =>
          /\ waitTasks' = waitTasks
          /\ runs' = runs
          /\ task'[nTasks'].timer = "none"
          /\ task'[nTasks'].runCount = 0
          /\ task'[nTasks'].evalCalls = 0
          /\ task'[nTasks'].outcome = "none"
          /\ \A t \in Tasks \ {nTasks'} : task'[t] = task[t]
          /\ UNCHANGED <<detached, documentPromise, contextPromise,
                         contextResolveCallback, promiseVal, nBinds, acq>>]_vars

\* C13 witness: a constructor call threw on a World that has a realm and a
\* registered task with its evaluateHandle call in flight.
C13_Witness ==
  \E t, u \in Tasks :
    /\ task[t].threw
    /\ u \in waitTasks
    /\ ~contextResolveCallback
    /\ \E run \in RunsOf(u) : run.pc = "eval"

\* C14: on a detached World a _setContext(context) call changes nothing of
\* the context slot: the resolve callback stays as it was, no context
\* promise is fulfilled, no caller of executionContext() is resumed and no
\* run is started.
C14_DetachTerminalForBinds ==
  [][(detached /\ nBinds' = nBinds + 1) =>
       /\ contextResolveCallback' = contextResolveCallback
       /\ promiseVal' = promiseVal
       /\ acq' = acq
       /\ runs' = runs
       /\ \A t \in Tasks : task'[t].runCount = task[t].runCount]_vars

\* C15: the promise an invocation of the poll loop returns is settled at
\* most once; it is fulfilled with the truthy value the predicate returned,
\* or with the sentinel and then only after timedOut was set; it is rejected
\* only by a throw of the predicate in the first pass, never by the step
\* that sets timedOut nor by any step taken with timedOut set. This holds
\* for raf, mutation and a numeric interval.
C15_AtMostOneOutcome ==
  [][/\ result # "none" => result' = result
     /\ result' \in {"none", "truthy", "sentinel", "rejected"}
     /\ (result = "none" /\ result' = "truthy") => predicateValue' = "truthy"
     /\ (result = "none" /\ result' = "sentinel") => timedOut
     /\ (result = "none" /\ result' = "rejected") =>
          (pagePolling = "none" /\ predicateValue = "throws")
     /\ (timedOut \/ timedOut') => (result' = "rejected" => result = "rejected")
     /\ (~timedOut /\ timedOut') => result' = result]_vars

\* C15 witness: with the mutation strategy the observer callback found
\* timedOut set, fulfilled with the sentinel, and then called a predicate
\* that returned a truthy value, whose fulfill was ignored.
C15_Witness ==
  /\ pagePolling = "mutation"
  /\ timedOut
  /\ result = "sentinel"
  /\ ~observing
  /\ predicateValue = "truthy"
  /\ predCalls = MaxPredCalls

\* C16: when the evaluateHandle call of a run fails with an error that is
\* not a realm-death error, then, if the run is the latest of its task and
\* the task is not terminated, the task is rejected with that error, its
\* timer is no longer armed and it is out of the collection; otherwise the
\* response changes no task and not the collection.
C16_OtherErrorRejects ==
  [][\A run \in runs :
       (run.pc = "eval" /\ Becomes(AfterEval(World, run, ErrOther))) =>
         IF ~IsStale(World, run)
         THEN /\ task'[run.t].outcome = ErrOther
              /\ task'[run.t].timer # "armed"
              /\ run.t \notin waitTasks'
         ELSE /\ task' = task
              /\ waitTasks' = waitTasks]_vars

\* C17: a run whose evaluateHandle call returned the falsy sentinel settles
\* nothing: neither the step that receives the sentinel nor the step in
\* which the falsy check of line 713 reports it changes any field of any
\* task (promise, timer, run counter, evaluateHandle calls) or the
\* collection, and no run is started; when the check is over the run is
\* finished, the handle disposed.
C17_FalsySettlesNothing ==
  [][\A run \in runs :
       /\ (run.pc = "eval" /\ ~IsStale(World, run)
             /\ Becomes(AfterEval(World, run, "falsy"))) =>
            /\ task' = task
            /\ waitTasks' = waitTasks
            /\ \A x \in runs' \ runs :
                 /\ x.t = run.t /\ x.n = run.n /\ x.v = "falsy"
                 /\ x.pc \in {"falsyCtx", "falsyEval"}
       /\ (run.pc = "falsyEval" /\ run.v = "falsy"
             /\ \E ok \in BOOLEAN :
                  Becomes(AfterFalsy(World, run, IF ok THEN run.v = "falsy" ELSE TRUE))) =>
            /\ task' = task
            /\ waitTasks' = waitTasks
            /\ runs' = runs \ {run}]_vars

\* C17 witness: the latest run of a task received the sentinel and is in
\* the falsy check of line 713, and a second task went through the whole
\* of it; both are registered and pending with their timers armed.
C17_Witness ==
  \E t, u \in Tasks :
    /\ t # u
    /\ {t, u} \subseteq waitTasks
    /\ task[t].outcome = "pending" /\ task[u].outcome = "pending"
    /\ task[t].timer = "armed" /\ task[u].timer = "armed"
    /\ RunsOf(t) = {[t |-> t, n |-> task[t].runCount, pc |-> "falsyEval",
                     p |-> 0, r |-> nBinds, v |-> "falsy"]}
    /\ RunsOf(u) = {}
    /\ task[u].evalCalls = 1
    /\ ~task[u].swallowed

\* C18: no handle returned to a run is left both undisposed and undelivered:
\* every handle that does not become the value of the task's promise is
\* disposed, whenever the timer, _detach() or _setContext interleave with
\* the awaits of the run.
C18_NoHandleLeak == \A t \in Tasks : ~task[t].leaked

\* C19: when a _setContext(context) call is accepted, the context promise
\* holds the realm passed in before any run acts on it: every evaluateHandle
\* call issued in the step, by a run the call starts or by a run it resumes,
\* goes to that realm; every registered task has its latest run in flight
\* on it; and every caller of executionContext() resumed in the step
\* receives it.
C19_BindInstallsBeforeRerun ==
  [][BindAccepted =>
       /\ promiseVal'[contextPromise'] = nBinds'
       /\ \A x \in runs' \ runs :
            x.pc \in {"eval", "falsyEval"} /\ x.r = nBinds'
       /\ \A t \in waitTasks :
            \E x \in runs' :
              /\ x.t = t /\ x.n = task'[t].runCount /\ x.n = task[t].runCount + 1
              /\ x.pc = "eval" /\ x.r = nBinds'
       /\ \A a \in Acquirers :
            acq'[a] # acq[a] =>
              /\ acq[a].st = "suspended"
              /\ acq'[a].st = "resolved"
              /\ acq'[a].r = nBinds']_vars

\* C19 witness: the second realm was bound while a task was registered and
\* a caller of executionContext() was waiting: the task's latest run is in
\* flight on the second realm and the caller holds it.
C19_Witness ==
  /\ nBinds = 2
  /\ ~contextResolveCallback
  /\ \E t \in waitTasks :
       /\ task[t].runCount >= 2
       /\ \E x \in RunsOf(t) :
            x.n = task[t].runCount /\ x.pc = "eval" /\ x.r = 2
  /\ \E a \in Acquirers : acq[a].st = "resolved" /\ acq[a].r = 2

\* C20: with the mutation strategy and a timeout, in a page where the
\* predicate stays falsy, once timedOut is set while the observer is
\* connected the returned promise is eventually fulfilled with the sentinel
\* and the observer disconnected, given only that the timers of the page
\* fire.
C20_MutationTimeoutFulfils ==
  ([](predicateValue = "falsy")) =>
    ((pagePolling = "mutation" /\ pageTimeout # 0 /\ timedOut /\ observing)
       ~> (result = "sentinel" /\ ~observing))

\* C21: in every strategy, a callback of the loop that finds timedOut set
\* fulfils with the sentinel without calling the predicate and ends the
\* loop: nothing is scheduled and the observer is disconnected; and once the
\* loop has ended the predicate is not called and nothing is scheduled.
C21_TimedOutIterationEndsLoop ==
  [][/\ (timedOut /\ scheduled /\ pageVars' # pageVars /\ predicateValue' = predicateValue) =>
          /\ result' = PageFulfill(result, "sentinel")
          /\ predCalls' = predCalls
          /\ ~scheduled'
     /\ (timedOut /\ observing /\ pageVars' # pageVars) =>
          /\ result' = PageFulfill(result, "sentinel")
          /\ predCalls' = predCalls
          /\ ~observing'
     /\ (timedOut /\ pagePolling # "none" /\ ~scheduled /\ ~observing) =>
          /\ predCalls' = predCalls
          /\ ~scheduled' /\ ~observing']_vars

\* C22: after every _setContext(context) call on a World that is not
\* detached, whether its slot was empty or held another realm, the World
\* has a realm and the current context promise is fulfilled with the realm
\* passed in, so that a caller of executionContext() receives it.
C22_BindMakesRealmCurrent ==
  [][(~detached /\ nBinds' = nBinds + 1) =>
       /\ ~contextResolveCallback'
       /\ promiseVal'[contextPromise'] = nBinds']_vars

\* C23: an evaluateHandle call is issued for a task only while its promise
\* is pending and it is not terminated; a run that was waiting for a realm
\* when its task was terminated or settled issues none when a realm is
\* bound.
C23_NoEvaluateForSettledTask ==
  [][\A t \in Tasks :
       task'[t].evalCalls > task[t].evalCalls =>
         /\ task'[t].outcome = "pending"
         /\ ~task'[t].terminated
         /\ (task[t].outcome # "none" =>
               task[t].outcome = "pending" /\ ~task[t].terminated)]_vars
====
